---- MODULE Spec2Model ----
(***************************************************************************)
(* Blue-green switching of Jenkins teams (devops-ind/jenkins-ha).          *)
(*                                                                         *)
(* The module models                                                       *)
(*   - the circuit breaker record and the functions that read and write    *)
(*     it (tests/blue-green/test_failure_scenarios.py),                    *)
(*   - the blue-green state file and the switch / rollback functions that  *)
(*     write it (tests/blue-green/test_basic_switching.py,                 *)
(*     test_multi_team.py, test_failure_scenarios.py),                     *)
(*   - the pre-switch checks (test_failure_scenarios.py),                  *)
(*   - scripts/update-team-environment.py on the ansible configuration.    *)
(* Time is in whole seconds.  A missing dictionary key is the value        *)
(* ABSENT, Python's None is the value NONE.                                *)
(***************************************************************************)
EXTENDS Integers, Sequences, FiniteSets, TLC

VARIABLES
    cb,         \* team -> circuit breaker record (one circuit_breaker.json each)
    now,        \* time.time()
    state,      \* blue_green_state.json: team -> team record
    completed,  \* history: team -> number of switches that reported success
    streak,     \* history: team -> failures reported since the last success
    requests,   \* history: number of switch requests that reached the executor
    config,     \* the ansible configuration file main.yml
    backups,    \* number of main.yml.backup_* files written
    result,     \* what the last operation returned
    threads,    \* worker -> what a running operation holds in memory
    input,      \* the arguments the run was started with
    history,    \* history: team -> the switches and rollbacks it has made
    haproxy     \* the environments the load balancer serves

vars == <<cb, now, state, completed, streak, requests, config, backups,
          result, threads, input, history, haproxy>>

(***************************************************************************)
(* Bounds of the model.                                                    *)
(***************************************************************************)
TickStep    == 1800     \* seconds the clock advances in one step
MaxTime     == 3600     \* the clock stops here
MaxFailures == 4        \* failure reports are refused beyond this count
MaxSwitch   == 2        \* successful switches per team
MaxBackups  == 2        \* backup files written by updates
MaxRequests == 3        \* switch requests executed in one behaviour
MaxFailingStep == 1     \* the executor steps at which a failure is injected
Margin      == 1        \* how far around a threshold the inputs are drawn

(***************************************************************************)
(* Constants of the program.                                               *)
(***************************************************************************)
FailureThreshold == 3       \* if state["failure_count"] >= 3
CooldownSeconds  == 1800    \* time.time() + 1800
HttpOk           == 200     \* health_response["status"] != 200
MaxQueueAllowed  == 5       \* validate_queue_size(queue_size, max_allowed=5)
CpuThreshold     == 80      \* thresholds = {"cpu": 80, "memory": 85}
MemoryThreshold  == 85
ErrorRateThreshold    == 500    \* error_rate > 0.05, in hundredths of a percent
ResponseTimeThreshold == 5000   \* response_time > 5000
AvailabilityThreshold == 9500   \* availability < 0.95, in hundredths of a percent
DrainTime             == 30     \* perform_graceful_switch(..., drain_time=30)

Teams == {"devops", "qa"}
Names == Teams \cup {"nonexistent"}
Envs  == {"blue", "green"}
ABSENT == "absent"
NONE   == -1

NoResult ==
    [op |-> "none", team |-> "", arg |-> "", status |-> 0, ok |-> FALSE,
     msg |-> "", before |-> "", reasons |-> <<>>]

\* no worker is running, no arguments were given, no switch has been made
\* and no graceful switch is under way
NoThreads == <<>>
NoInput == [kind |-> "none"]
NoHistory ==
    [t \in Teams |-> [previous |-> ABSENT, rollbacks |-> 0, reason |-> ABSENT]]
NoRouting == [enabled |-> {}, primary |-> "", draining |-> {}, steps |-> <<>>]

\* conftest.py, fixture blue_green_state_file
InitialState ==
    [t \in Teams |->
        [active_environment |-> IF t = "devops" THEN "blue" ELSE "green",
         last_switch_time |-> 0,
         switch_count |-> 0,
         last_rollback_time |-> ABSENT,
         last_rollback_reason |-> ABSENT]]

(***************************************************************************)
(* Circuit breaker.                                                        *)
(***************************************************************************)
\* conftest.py, fixture circuit_breaker_state
InitialBreaker ==
    [state |-> "closed", failure_count |-> 0,
     last_failure_time |-> NONE, cooldown_until |-> 0]

\* update_circuit_breaker with "failure_count > 3" for ">= 3"
update_circuit_breaker_gt(s, failure_occurred, t) ==
    IF failure_occurred
    THEN LET s1 == [s EXCEPT !.failure_count = @ + 1,
                             !.last_failure_time = t]
         IN  IF s1.failure_count > FailureThreshold
             THEN [s1 EXCEPT !.state = "open",
                             !.cooldown_until = t + CooldownSeconds]
             ELSE s1
    ELSE [s EXCEPT !.failure_count = 0,
                   !.state = "closed",
                   !.cooldown_until = 0]

\* update_circuit_breaker with "failure_count == 3" for ">= 3"
update_circuit_breaker_eq(s, failure_occurred, t) ==
    IF failure_occurred
    THEN LET s1 == [s EXCEPT !.failure_count = @ + 1,
                             !.last_failure_time = t]
         IN  IF s1.failure_count = FailureThreshold
             THEN [s1 EXCEPT !.state = "open",
                             !.cooldown_until = t + CooldownSeconds]
             ELSE s1
    ELSE [s EXCEPT !.failure_count = 0,
                   !.state = "closed",
                   !.cooldown_until = 0]

\* update_circuit_breaker(state, failure_occurred), called at time t
update_circuit_breaker(s, failure_occurred, t) ==
    IF failure_occurred
    THEN LET s1 == [s EXCEPT !.failure_count = @ + 1,
                             !.last_failure_time = t]
         IN  IF s1.failure_count >= FailureThreshold
             THEN [s1 EXCEPT !.state = "open",
                             !.cooldown_until = t + CooldownSeconds]
             ELSE s1
    ELSE [s EXCEPT !.failure_count = 0,
                   !.state = "closed",
                   !.cooldown_until = 0]

\* can_execute_switch with "time.time() <= cooldown_until" for "<"
can_execute_switch_le(s, t) ==
    IF s.state = "open"
    THEN IF t <= s.cooldown_until
         THEN [ok |-> FALSE,
               msg |-> "Circuit breaker open - cooldown active",
               cb |-> s]
         ELSE [ok |-> TRUE,
               msg |-> "Circuit breaker half-open - single attempt allowed",
               cb |-> [s EXCEPT !.state = "half-open"]]
    ELSE [ok |-> TRUE,
          msg |-> "Circuit breaker closed - operations allowed",
          cb |-> s]

\* can_execute_switch that writes "closed" for "half-open" after the cooldown
can_execute_switch_closes(s, t) ==
    IF s.state = "open"
    THEN IF t < s.cooldown_until
         THEN [ok |-> FALSE,
               msg |-> "Circuit breaker open - cooldown active",
               cb |-> s]
         ELSE [ok |-> TRUE,
               msg |-> "Circuit breaker half-open - single attempt allowed",
               cb |-> [s EXCEPT !.state = "closed"]]
    ELSE [ok |-> TRUE,
          msg |-> "Circuit breaker closed - operations allowed",
          cb |-> s]

\* can_execute_switch(cb_file), called at time t: the answer, the message and
\* the record the file holds afterwards
can_execute_switch(s, t) ==
    IF s.state = "open"
    THEN IF t < s.cooldown_until
         THEN [ok |-> FALSE,
               msg |-> "Circuit breaker open - cooldown active",
               cb |-> s]
         ELSE [ok |-> TRUE,
               msg |-> "Circuit breaker half-open - single attempt allowed",
               cb |-> [s EXCEPT !.state = "half-open"]]
    ELSE [ok |-> TRUE,
          msg |-> "Circuit breaker closed - operations allowed",
          cb |-> s]

\* attempt_recovery(), called at time t
attempt_recovery(s, t) ==
    IF s.state = "open" /\ t >= s.cooldown_until
    THEN [ok |-> TRUE,
          msg |-> "Transitioned to half-open state",
          cb |-> [s EXCEPT !.state = "half-open"]]
    ELSE [ok |-> FALSE,
          msg |-> "Recovery not allowed yet",
          cb |-> s]

\* the message names an active cooldown ("cooldown active" in msg)
CooldownActive(msg) == msg = "Circuit breaker open - cooldown active"

\* ReportOutcome on one record shared by all teams
ReportOutcome_shared(t, failure_occurred) ==
    /\ failure_occurred => cb[t].failure_count < MaxFailures
    /\ cb' = [u \in Teams |->
                 update_circuit_breaker(cb[t], failure_occurred, now)]
    /\ result' = [NoResult EXCEPT !.op = "update_circuit_breaker",
                                  !.team = t,
                                  !.arg = IF failure_occurred THEN "failure"
                                                              ELSE "success",
                                  !.ok = TRUE,
                                  !.before = cb[t].state]
    /\ streak' = [streak EXCEPT ![t] = IF failure_occurred THEN @ + 1 ELSE 0]
    /\ UNCHANGED <<now, state, completed, requests, config, backups,
                   threads, input, history, haproxy>>

\* A failure or a success is reported for team t's breaker.
ReportOutcome(t, failure_occurred) ==
    /\ failure_occurred => cb[t].failure_count < MaxFailures
    /\ cb' = [cb EXCEPT ![t] = update_circuit_breaker(@, failure_occurred, now)]
    /\ result' = [NoResult EXCEPT !.op = "update_circuit_breaker",
                                  !.team = t,
                                  !.arg = IF failure_occurred THEN "failure"
                                                              ELSE "success",
                                  !.ok = TRUE,
                                  !.before = cb[t].state]
    /\ streak' = [streak EXCEPT ![t] = IF failure_occurred THEN @ + 1 ELSE 0]
    /\ UNCHANGED <<now, state, completed, requests, config, backups,
                   threads, input, history, haproxy>>

\* The admission check is made for team t.
CheckAdmission(t) ==
    LET r == can_execute_switch(cb[t], now)
    IN  /\ cb' = [cb EXCEPT ![t] = r.cb]
        /\ result' = [NoResult EXCEPT !.op = "can_execute_switch",
                                      !.team = t,
                                      !.ok = r.ok,
                                      !.msg = r.msg,
                                      !.before = cb[t].state]
        /\ UNCHANGED <<now, state, completed, streak, requests, config, backups,
                       threads, input, history, haproxy>>

\* Recovery is attempted for team t.
AttemptRecovery(t) ==
    LET r == attempt_recovery(cb[t], now)
    IN  /\ cb' = [cb EXCEPT ![t] = r.cb]
        /\ result' = [NoResult EXCEPT !.op = "attempt_recovery",
                                      !.team = t,
                                      !.ok = r.ok,
                                      !.msg = r.msg,
                                      !.before = cb[t].state]
        /\ UNCHANGED <<now, state, completed, streak, requests, config, backups,
                       threads, input, history, haproxy>>

\* time.time() advances
Tick ==
    /\ now + TickStep <= MaxTime
    /\ now' = now + TickStep
    /\ UNCHANGED <<cb, state, completed, streak, requests, config, backups,
                 result, threads, input, history, haproxy>>

(***************************************************************************)
(* scripts/update-team-environment.py on the configuration file.           *)
(*                                                                         *)
(* The file is [kind, teams]: kind "missing" (no such file), "corrupt"     *)
(* (yaml.safe_load fails or yields None), "nokey" (a mapping without       *)
(* jenkins_teams_config) or "ok" (teams is jenkins_teams_config).  A team  *)
(* entry has the four fields the script reads; a field the entry lacks is  *)
(* ABSENT.                                                                 *)
(***************************************************************************)
NoFile == [kind |-> "missing", teams |-> <<>>]
CorruptFile == [kind |-> "corrupt", teams |-> <<>>]
NoKeyFile == [kind |-> "nokey", teams |-> <<>>]

TeamEntries(n) ==
    [team_name : {n},
     active_environment : Envs \cup {ABSENT},
     blue_green_enabled : {"true", "false", ABSENT},
     ports : {"ports", ABSENT}]

\* the configurations the script may be started on
InitialConfigs ==
    {NoFile, CorruptFile, NoKeyFile}
        \cup {[kind |-> "ok", teams |-> <<d, q>>] :
                 d \in TeamEntries("devops"), q \in TeamEntries("qa")}

\* what the operating system lets the calls of one update do; a call that
\* is not reached has one value only
IOOutcomes ==
    {io \in [backup : BOOLEAN,  \* shutil.copy2(config_path, backup_path) succeeds
             load : BOOLEAN,    \* open(config_path, 'r') succeeds
             save : {"ok", "unopened", "truncated"},
                                \* open(config_path, 'w') and yaml.dump succeed,
                                \* or open fails, or the write fails after open
                                \* truncated the file
             kept : 0..1,       \* team entries left readable by a failed
                                \* write, 0 for an unreadable file
             restore : BOOLEAN, \* shutil.copy2(backup_path, config_path) succeeds
             verify : BOOLEAN] : \* the second open(config_path, 'r') succeeds
        /\ ~io.backup => io.load
        /\ ~(io.backup /\ io.load) => io.save = "ok"
        /\ io.save # "truncated" => io.kept = 0
        /\ io.save = "ok" => io.restore
        /\ io.save # "ok" => io.verify}

\* load_yaml_config(config_path): the parsed file, or CorruptFile for None
load_yaml_config(file, readable) ==
    IF readable /\ file.kind \in {"ok", "nokey"} THEN file ELSE CorruptFile

\* find_team_in_config(config, team_name): the index of the first entry
\* with that team_name, 0 for (None, -1)
find_team_in_config(cfg, team_name) ==
    IF cfg.kind # "ok" THEN 0
    ELSE LET hits == {i \in 1..Len(cfg.teams) :
                          cfg.teams[i].team_name = team_name}
         IN  IF hits = {} THEN 0
             ELSE CHOOSE i \in hits : \A j \in hits : i <= j

\* validate_environment(environment)
validate_environment(environment) == environment \in {"blue", "green"}

\* team_config.get(field, default)
Get(entry, field, default) ==
    IF entry[field] = ABSENT THEN default ELSE entry[field]

\* what a write that failed after truncating the file leaves behind
Truncated(cfg, kept) ==
    IF kept = 0 THEN CorruptFile
    ELSE [kind |-> "ok", teams |-> SubSeq(cfg.teams, 1, kept)]

\* update_team_environment(team_name, new_environment, config_path):
\* the return value, the configuration file, the number of backups made and
\* the return statement reached
update_team_environment(file, team_name, new_environment, io) ==
    LET unchanged(ok, n, exit) ==
            [ok |-> ok, file |-> file, backups |-> n, exit |-> exit]
        cfg == load_yaml_config(file, io.load)
        idx == find_team_in_config(cfg, team_name)
        current_environment ==
            Get(cfg.teams[idx], "active_environment", "blue")
        updated ==
            [cfg EXCEPT !.teams[idx].active_environment = new_environment]
        written ==
            CASE io.save = "ok" -> updated
              [] io.save = "unopened" -> file
              [] io.save = "truncated" -> Truncated(updated, io.kept)
        verify_config == load_yaml_config(written, io.verify)
        vidx == find_team_in_config(verify_config, team_name)
    IN  IF ~validate_environment(new_environment)
        THEN unchanged(FALSE, 0, "invalid environment")
        ELSE IF file.kind = "missing" THEN unchanged(FALSE, 0, "no file")
        ELSE IF ~io.backup THEN unchanged(FALSE, 0, "no backup")
        ELSE IF cfg = CorruptFile THEN unchanged(FALSE, 1, "not loaded")
        ELSE IF idx = 0 THEN unchanged(FALSE, 1, "team not found")
        ELSE IF current_environment = new_environment
             THEN unchanged(TRUE, 1, "already on environment")
        ELSE IF io.save # "ok"
             THEN [ok |-> FALSE,
                   file |-> IF io.restore THEN file ELSE written,
                   backups |-> 1,
                   exit |-> "not saved"]
        ELSE IF verify_config # CorruptFile
             THEN [ok |-> /\ vidx # 0
                          /\ verify_config.teams[vidx].active_environment
                                 = new_environment,
                   file |-> written,
                   backups |-> 1,
                   exit |-> "verified"]
        ELSE [ok |-> TRUE, file |-> written, backups |-> 1,
              exit |-> "not read back"]

\* show_team_environments(config_path): the return value and the lines
\* printed, one per entry
show_team_environments(file, readable) ==
    LET cfg == load_yaml_config(file, readable)
    IN  IF file.kind = "missing" \/ cfg.kind # "ok"
        THEN [ok |-> FALSE, lines |-> <<>>]
        ELSE [ok |-> TRUE,
              lines |-> [i \in 1..Len(cfg.teams) |->
                  [team_name |-> Get(cfg.teams[i], "team_name", "unknown"),
                   environment |->
                       Get(cfg.teams[i], "active_environment", "unknown"),
                   enabled |->
                       Get(cfg.teams[i], "blue_green_enabled", "false")
                           = "true"]]]

\* validate_team_configuration that does not look at blue_green_enabled
validate_team_configuration_lax(file, team_name, readable) ==
    LET cfg == load_yaml_config(file, readable)
        idx == find_team_in_config(cfg, team_name)
        required_fields ==
            {"team_name", "blue_green_enabled", "active_environment", "ports"}
        missing_fields == {f \in required_fields : cfg.teams[idx][f] = ABSENT}
    IN  IF cfg = CorruptFile THEN FALSE
        ELSE IF idx = 0 THEN FALSE
        ELSE IF missing_fields # {} THEN FALSE
        ELSE TRUE

\* validate_team_configuration(config_path, team_name)
validate_team_configuration(file, team_name, readable) ==
    LET cfg == load_yaml_config(file, readable)
        idx == find_team_in_config(cfg, team_name)
        required_fields ==
            {"team_name", "blue_green_enabled", "active_environment", "ports"}
        missing_fields == {f \in required_fields : cfg.teams[idx][f] = ABSENT}
    IN  IF cfg = CorruptFile THEN FALSE
        ELSE IF idx = 0 THEN FALSE
        ELSE IF missing_fields # {} THEN FALSE
        ELSE IF Get(cfg.teams[idx], "blue_green_enabled", "false") # "true"
             THEN FALSE
        ELSE TRUE

\* the active_environment the file holds for a team, ABSENT when the file
\* has no such entry or the entry no such field
PersistedEnvironment(file, team_name) ==
    LET idx == find_team_in_config(file, team_name)
    IN  IF idx = 0 THEN ABSENT ELSE file.teams[idx].active_environment

\* "update <team> <environment>"
Update(team_name, new_environment, io) ==
    LET r == update_team_environment(config, team_name, new_environment, io)
    IN  /\ backups + r.backups <= MaxBackups
        /\ config' = r.file
        /\ backups' = backups + r.backups
        /\ result' = [NoResult EXCEPT !.op = "update",
                                      !.team = team_name,
                                      !.arg = new_environment,
                                      !.ok = r.ok,
                                      !.msg = r.exit]
        /\ UNCHANGED <<cb, now, state, completed, streak, requests,
                       threads, input, history, haproxy>>

\* "show"
Show(readable) ==
    LET r == show_team_environments(config, readable)
    IN  /\ result' = [NoResult EXCEPT !.op = "show",
                                      !.ok = r.ok,
                                      !.reasons = r.lines]
        /\ UNCHANGED <<cb, now, state, completed, streak, requests, config,
                     backups, threads, input, history, haproxy>>

\* "validate <team>"
Validate(team_name, readable) ==
    /\ result' = [NoResult EXCEPT
                     !.op = "validate",
                     !.team = team_name,
                     !.arg = IF readable THEN "readable" ELSE "unreadable",
                     !.ok = validate_team_configuration(config, team_name,
                                                        readable)]
    /\ UNCHANGED <<cb, now, state, completed, streak, requests, config,
                     backups, threads, input, history, haproxy>>

InitUpdate ==
    /\ cb = [t \in Teams |-> InitialBreaker]
    /\ now = 0
    /\ state = InitialState
    /\ completed = [t \in Teams |-> 0]
    /\ streak = [t \in Teams |-> 0]
    /\ requests = 0
    /\ config \in InitialConfigs
    /\ backups = 0
    /\ result = NoResult
    /\ threads = NoThreads
    /\ input = NoInput
    /\ history = NoHistory
    /\ haproxy = NoRouting

NextUpdate ==
    \/ \E n \in Names, e \in Envs \cup {"red"} :
          \E io \in IOOutcomes : Update(n, e, io)
    \/ \E readable \in BOOLEAN : Show(readable)
    \/ \E n \in Names, readable \in BOOLEAN : Validate(n, readable)

SpecUpdate == InitUpdate /\ [][NextUpdate]_vars

InitBreaker ==
    /\ cb = [t \in Teams |-> InitialBreaker]
    /\ now = 0
    /\ state = InitialState
    /\ completed = [t \in Teams |-> 0]
    /\ streak = [t \in Teams |-> 0]
    /\ requests = 0
    /\ config = NoFile
    /\ backups = 0
    /\ result = NoResult
    /\ threads = NoThreads
    /\ input = NoInput
    /\ history = NoHistory
    /\ haproxy = NoRouting

NextBreaker ==
    \/ \E t \in Teams : ReportOutcome(t, TRUE)
    \/ \E t \in Teams : ReportOutcome(t, FALSE)
    \/ \E t \in Teams : CheckAdmission(t)
    \/ \E t \in Teams : AttemptRecovery(t)
    \/ Tick

SpecBreaker == InitBreaker /\ [][NextBreaker]_vars

(***************************************************************************)
(* The pre-switch checks.  A check returns at most one message; a message  *)
(* is a sequence of [text, value], the fixed part of a string and the      *)
(* number formatted into it, joined by "; ".                               *)
(***************************************************************************)
Passed == [ok |-> TRUE, reasons |-> <<>>]
Failed(text, value) ==
    [ok |-> FALSE, reasons |-> << <<[text |-> text, value |-> value]>> >>]

\* check_active_builds(api_response); building is the number of builds with
\* "building": True
check_active_builds(api_response) ==
    IF api_response.status # HttpOk THEN Failed("API unavailable", 0)
    ELSE IF api_response.building > 0
         THEN Failed("Active builds", api_response.building)
    ELSE Passed

\* validate_queue_size that fails without a message
validate_queue_size_silent(queue_size) ==
    IF queue_size > MaxQueueAllowed
    THEN [ok |-> FALSE, reasons |-> <<>>]
    ELSE Passed

\* validate_queue_size(queue_size, max_allowed=5)
validate_queue_size(queue_size) ==
    IF queue_size > MaxQueueAllowed
    THEN Failed("Queue too large", queue_size)
    ELSE Passed

\* validate_target_health that fails on server errors only
validate_target_health_5xx(health_response) ==
    IF health_response.status >= 500
    THEN Failed("Target unhealthy: HTTP", health_response.status)
    ELSE Passed

\* validate_target_health(health_response)
validate_target_health(health_response) ==
    IF health_response.status # HttpOk
    THEN Failed("Target unhealthy: HTTP", health_response.status)
    ELSE Passed

\* check_resource_availability with ">=" for ">"
check_resource_availability_ge(cpu_usage, memory_usage) ==
    LET cpu == IF cpu_usage >= CpuThreshold
               THEN <<[text |-> "CPU usage too high", value |-> cpu_usage]>>
               ELSE <<>>
        mem == IF memory_usage >= MemoryThreshold
               THEN <<[text |-> "Memory usage too high",
                       value |-> memory_usage]>>
               ELSE <<>>
        issues == cpu \o mem
    IN  IF issues # <<>> THEN [ok |-> FALSE, reasons |-> <<issues>>]
        ELSE Passed

\* check_resource_availability(cpu_usage, memory_usage, thresholds=None)
check_resource_availability(cpu_usage, memory_usage) ==
    LET cpu == IF cpu_usage > CpuThreshold
               THEN <<[text |-> "CPU usage too high", value |-> cpu_usage]>>
               ELSE <<>>
        mem == IF memory_usage > MemoryThreshold
               THEN <<[text |-> "Memory usage too high",
                       value |-> memory_usage]>>
               ELSE <<>>
        issues == cpu \o mem
    IN  IF issues # <<>> THEN [ok |-> FALSE, reasons |-> <<issues>>]
        ELSE Passed

\* Pre-Switch Validator: every check runs and every failure is collected
validate_switch(sig) ==
    LET reasons == check_active_builds(sig).reasons
                       \o validate_queue_size(sig.queue_size).reasons
                       \o validate_target_health(sig).reasons
                       \o check_resource_availability(sig.cpu_usage,
                                                      sig.memory_usage).reasons
    IN  [ok |-> reasons = <<>>, reasons |-> reasons]

\* the live signals a request may meet
Healthy ==
    [status |-> HttpOk, building |-> 0, queue_size |-> 3,
     cpu_usage |-> 50, memory_usage |-> 60]
Signals ==
    {Healthy,
     [Healthy EXCEPT !.status = 503],
     [Healthy EXCEPT !.status = 404],
     [Healthy EXCEPT !.building = 1, !.queue_size = 10,
                     !.cpu_usage = 90, !.memory_usage = 95]}

\* the live signals a rollback may meet
RollbackSignals == {Healthy, [Healthy EXCEPT !.status = 503]}

(***************************************************************************)
(* The state file and the functions that write it.                         *)
(***************************************************************************)
\* switch_team_environment(team_name, target_env) run on its own: success
\* and the state file afterwards; last_switch_time is 1 for a timestamp
\* written by a switch, 0 for the one the file is created with
switch_team_environment(st, team_name, target_env) ==
    IF team_name \notin DOMAIN st
    THEN [success |-> FALSE, state |-> st]
    ELSE [success |-> TRUE,
          state |-> [st EXCEPT ![team_name].active_environment = target_env,
                               ![team_name].switch_count = @ + 1,
                               ![team_name].last_switch_time = 1]]

\* batch_switch_all_teams(target_env) on the loaded state
batch_switch_all_teams(st, target_env) ==
    [team_name \in DOMAIN st |->
        [st[team_name] EXCEPT !.active_environment = target_env,
                              !.switch_count = @ + 1]]

\* execute_rollback that does not record the reason
execute_rollback_unrecorded(st, team_name, reason) ==
    IF team_name \notin DOMAIN st
    THEN [success |-> FALSE, state |-> st]
    ELSE LET current_env == st[team_name].active_environment
             target_env == IF current_env = "green" THEN "blue" ELSE "green"
         IN  [success |-> TRUE,
              state |-> [st EXCEPT
                  ![team_name].active_environment = target_env,
                  ![team_name].switch_count = @ + 1,
                  ![team_name].last_rollback_time = "2024-01-01T12:00:00Z"]]

\* execute_rollback that leaves switch_count as it was
execute_rollback_uncounted(st, team_name, reason) ==
    IF team_name \notin DOMAIN st
    THEN [success |-> FALSE, state |-> st]
    ELSE LET current_env == st[team_name].active_environment
             target_env == IF current_env = "green" THEN "blue" ELSE "green"
         IN  [success |-> TRUE,
              state |-> [st EXCEPT
                  ![team_name].active_environment = target_env,
                  ![team_name].last_rollback_time = "2024-01-01T12:00:00Z",
                  ![team_name].last_rollback_reason = reason]]

\* execute_rollback(team_name, reason)
execute_rollback(st, team_name, reason) ==
    IF team_name \notin DOMAIN st
    THEN [success |-> FALSE, state |-> st]
    ELSE LET current_env == st[team_name].active_environment
             target_env == IF current_env = "green" THEN "blue" ELSE "green"
         IN  [success |-> TRUE,
              state |-> [st EXCEPT
                  ![team_name].active_environment = target_env,
                  ![team_name].switch_count = @ + 1,
                  ![team_name].last_rollback_time = "2024-01-01T12:00:00Z",
                  ![team_name].last_rollback_reason = reason]]

\* should_rollback: the condition texts a rollback is requested with
RollbackReasons == {"High error rate", "Low availability"}

\* should_rollback with ">=" for ">" on the error rate
should_rollback_ge(error_rate, response_time, availability) ==
    (IF error_rate >= ErrorRateThreshold
     THEN <<[text |-> "High error rate", value |-> error_rate]>> ELSE <<>>)
    \o (IF response_time > ResponseTimeThreshold
        THEN <<[text |-> "High response time", value |-> response_time]>>
        ELSE <<>>)
    \o (IF availability < AvailabilityThreshold
        THEN <<[text |-> "Low availability", value |-> availability]>>
        ELSE <<>>)

\* should_rollback(error_rate, response_time, availability): the list
\* rollback_conditions; the two ratios are in hundredths of a percent, the
\* precision "{:.2%}" prints
should_rollback(error_rate, response_time, availability) ==
    (IF error_rate > ErrorRateThreshold
     THEN <<[text |-> "High error rate", value |-> error_rate]>> ELSE <<>>)
    \o (IF response_time > ResponseTimeThreshold
        THEN <<[text |-> "High response time", value |-> response_time]>>
        ELSE <<>>)
    \o (IF availability < AvailabilityThreshold
        THEN <<[text |-> "Low availability", value |-> availability]>>
        ELSE <<>>)

\* the condition a text names: "error rate" in c, "response time" in c,
\* "availability" in c
ConditionOf(text) ==
    CASE text = "High error rate" -> "error rate"
      [] text = "High response time" -> "response time"
      [] text = "Low availability" -> "availability"
      [] OTHER -> ""

\* perform_graceful_switch(from_env, to_env, drain_time=30): the steps
GracefulSteps ==
    <<"Enable", "Start draining", "Wait", "Switch primary backend", "Disable">>

\* one entry of switch_steps
Step(text, env, seconds) == [text |-> text, env |-> env, seconds |-> seconds]

\* perform_graceful_switch that disables the old environment before it
\* switches the primary backend
perform_graceful_switch_early(from_env, to_env, drain_time) ==
    <<Step("Enable", to_env, 0),
      Step("Start draining", from_env, 0),
      Step("Wait", "", drain_time),
      Step("Disable", from_env, 0),
      Step("Switch primary backend", to_env, 0)>>

\* perform_graceful_switch(from_env, to_env, drain_time=30): switch_steps
perform_graceful_switch(from_env, to_env, drain_time) ==
    <<Step("Enable", to_env, 0),
      Step("Start draining", from_env, 0),
      Step("Wait", "", drain_time),
      Step("Switch primary backend", to_env, 0),
      Step("Disable", from_env, 0)>>

\* what a step does to the environments the load balancer serves
ExecuteStep(h, step) ==
    LET done == [h EXCEPT !.steps = Append(@, step)]
    IN  CASE step.text = "Enable" ->
               [done EXCEPT !.enabled = @ \cup {step.env}]
          [] step.text = "Start draining" ->
               [done EXCEPT !.draining = @ \cup {step.env}]
          [] step.text = "Wait" -> done
          [] step.text = "Switch primary backend" ->
               [done EXCEPT !.primary = step.env]
          [] step.text = "Disable" ->
               [done EXCEPT !.enabled = @ \ {step.env},
                            !.draining = @ \ {step.env}]

\* validation that does not spare rollback requests
validation_of_always(initiator, sig) == validate_switch(sig)

\* the validation a request goes through: a rollback request skips the
\* Pre-Switch Validator
validation_of(initiator, sig) ==
    IF initiator = "user" THEN validate_switch(sig) ELSE Passed

(***************************************************************************)
(* One switch request, run from the first check to the report of its       *)
(* outcome: the validator for a user request, circuit breaker admission,   *)
(* the steps of the executor (failing_step = 0: none fails), then the      *)
(* state file and the breaker.  The repository has no function that puts   *)
(* these together; the order is that of the design (validation and         *)
(* admission before step 1, the state file written only after the last     *)
(* step, every outcome reported to the team's breaker).  A request that    *)
(* the validator blocks does not reach the breaker.                        *)
(***************************************************************************)
SwitchRequest(team_name, target_env, initiator, reason, sig, failing_step) ==
    LET known == team_name \in Teams
        val == validation_of(initiator, sig)
        adm == can_execute_switch(cb[team_name], now)
        run == IF initiator = "user"
               THEN switch_team_environment(state, team_name, target_env)
               ELSE execute_rollback(state, team_name, reason)
        req == [NoResult EXCEPT !.op = initiator,
                                !.team = team_name,
                                !.arg = target_env,
                                !.status = sig.status,
                                !.before = IF known THEN cb[team_name].state
                                                    ELSE ""]
        rejected == UNCHANGED <<cb, state, completed, streak, requests, now,
                                config, backups, threads, input, history,
                                haproxy>>
        executed == /\ requests < MaxRequests
                    /\ requests' = requests + 1
                    /\ UNCHANGED <<now, config, backups,
                                   threads, input, history, haproxy>>
    IN  CASE ~known ->
               /\ result' = [req EXCEPT !.msg = "failed",
                                        !.reasons = Failed("Team not found",
                                                           0).reasons]
               /\ rejected
          [] known /\ ~val.ok ->
               /\ result' = [req EXCEPT !.msg = "blocked",
                                        !.reasons = val.reasons]
               /\ rejected
          [] known /\ val.ok /\ ~adm.ok ->
               /\ result' = [req EXCEPT !.msg = "circuit_open",
                                        !.reasons = Failed(adm.msg, 0).reasons]
               /\ rejected
          [] known /\ val.ok /\ adm.ok /\ failing_step # 0 ->
               /\ cb[team_name].failure_count < MaxFailures
               /\ result' = [req EXCEPT
                                !.msg = "failed",
                                !.reasons = Failed(GracefulSteps[failing_step],
                                                   failing_step).reasons]
               /\ cb' = [cb EXCEPT ![team_name] =
                            update_circuit_breaker(adm.cb, TRUE, now)]
               /\ streak' = [streak EXCEPT ![team_name] = @ + 1]
               /\ UNCHANGED <<state, completed>>
               /\ executed
          [] known /\ val.ok /\ adm.ok /\ failing_step = 0 ->
               /\ state[team_name].switch_count < MaxSwitch
               /\ result' = [req EXCEPT !.msg = "success", !.ok = run.success]
               /\ state' = run.state
               /\ completed' = [completed EXCEPT ![team_name] =
                                   IF run.success THEN @ + 1 ELSE @]
               /\ cb' = [cb EXCEPT ![team_name] =
                            update_circuit_breaker(adm.cb, FALSE, now)]
               /\ streak' = [streak EXCEPT ![team_name] = 0]
               /\ executed

\* a user asks for a switch
UserSwitch(team_name, target_env, sig, failing_step) ==
    SwitchRequest(team_name, target_env, "user", "", sig, failing_step)

\* the rollback controller asks for a rollback, whatever the live signals
Rollback(team_name, reason, sig, failing_step) ==
    SwitchRequest(team_name, "previous", "rollback", reason, sig,
                  failing_step)

Init ==
    /\ cb = [t \in Teams |-> InitialBreaker]
    /\ now = 0
    /\ state = InitialState
    /\ completed = [t \in Teams |-> 0]
    /\ streak = [t \in Teams |-> 0]
    /\ requests = 0
    /\ config = NoFile
    /\ backups = 0
    /\ result = NoResult
    /\ threads = NoThreads
    /\ input = NoInput
    /\ history = NoHistory
    /\ haproxy = NoRouting

Next ==
    \/ \E n \in Names, e \in Envs, sig \in Signals, k \in 0..MaxFailingStep :
          /\ (sig # Healthy => k = 0)
          /\ UserSwitch(n, e, sig, k)
    \/ \E n \in Names, r \in RollbackReasons, sig \in RollbackSignals,
          k \in 0..MaxFailingStep :
          /\ (sig # Healthy => k = 0)
          /\ Rollback(n, r, sig, k)
    \/ Tick

Spec == Init /\ [][Next]_vars

(***************************************************************************)
(* The functions that write the state file, called one after the other:    *)
(* switch_team_environment, batch_switch_all_teams and execute_rollback.   *)
(* history keeps, for each team, the environment that was active before    *)
(* its most recent switch, the number of its rollbacks that succeeded and  *)
(* the reason the last of them was given.                                  *)
(***************************************************************************)
\* team t has made a switch away from environment env
Switched(h, t, env) == [h EXCEPT ![t].previous = env]

\* team t has made a rollback away from environment env for the reason
RolledBack(h, t, env, reason) ==
    [h EXCEPT ![t].previous = env,
              ![t].rollbacks = @ + 1,
              ![t].reason = reason]

\* switch_team_environment(team_name, target_env)
SwitchTeam(team_name, target_env) ==
    LET run == switch_team_environment(state, team_name, target_env)
    IN  /\ run.success => state[team_name].switch_count < MaxSwitch
        /\ state' = run.state
        /\ history' = IF run.success
                      THEN Switched(history, team_name,
                                    state[team_name].active_environment)
                      ELSE history
        /\ result' = [NoResult EXCEPT !.op = "switch_team_environment",
                                      !.team = team_name,
                                      !.arg = target_env,
                                      !.ok = run.success]
        /\ UNCHANGED <<cb, now, completed, streak, requests, config, backups,
                       threads, input, haproxy>>

\* batch_switch_all_teams(target_env)
BatchSwitch(target_env) ==
    /\ \A t \in Teams : state[t].switch_count < MaxSwitch
    /\ state' = batch_switch_all_teams(state, target_env)
    /\ history' = [t \in Teams |->
                      [history[t] EXCEPT
                          !.previous = state[t].active_environment]]
    /\ result' = [NoResult EXCEPT !.op = "batch_switch_all_teams",
                                  !.arg = target_env,
                                  !.ok = TRUE]
    /\ UNCHANGED <<cb, now, completed, streak, requests, config, backups,
                   threads, input, haproxy>>

\* execute_rollback(team_name, reason)
ExecuteRollback(team_name, reason) ==
    LET run == execute_rollback(state, team_name, reason)
    IN  /\ run.success => state[team_name].switch_count < MaxSwitch
        /\ state' = run.state
        /\ history' = IF run.success
                      THEN RolledBack(history, team_name,
                                      state[team_name].active_environment,
                                      reason)
                      ELSE history
        /\ result' = [NoResult EXCEPT !.op = "execute_rollback",
                                      !.team = team_name,
                                      !.arg = reason,
                                      !.ok = run.success]
        /\ UNCHANGED <<cb, now, completed, streak, requests, config, backups,
                       threads, input, haproxy>>

InitState ==
    /\ cb = [t \in Teams |-> InitialBreaker]
    /\ now = 0
    /\ state = InitialState
    /\ completed = [t \in Teams |-> 0]
    /\ streak = [t \in Teams |-> 0]
    /\ requests = 0
    /\ config = NoFile
    /\ backups = 0
    /\ result = NoResult
    /\ threads = NoThreads
    /\ input = NoInput
    /\ history = NoHistory
    /\ haproxy = NoRouting

NextState ==
    \/ \E n \in Names, e \in Envs : SwitchTeam(n, e)
    \/ \E e \in Envs : BatchSwitch(e)
    \/ \E n \in Names, r \in RollbackReasons : ExecuteRollback(n, r)

SpecState == InitState /\ [][NextState]_vars

(***************************************************************************)
(* The checks, should_rollback and perform_graceful_switch run on their    *)
(* own, each on arguments drawn around its thresholds.                     *)
(***************************************************************************)
Around(threshold) == (threshold - Margin)..(threshold + Margin)

SignalInputs ==
    {[kind |-> "signals", status |-> s, building |-> b, queue_size |-> q,
      cpu_usage |-> c, memory_usage |-> m] :
        s \in {HttpOk, 404, 503}, b \in 0..1, q \in Around(MaxQueueAllowed),
        c \in Around(CpuThreshold), m \in Around(MemoryThreshold)}

MetricInputs ==
    {[kind |-> "metrics", error_rate |-> e, response_time |-> r,
      availability |-> a] :
        e \in Around(ErrorRateThreshold), r \in Around(ResponseTimeThreshold),
        a \in Around(AvailabilityThreshold)}

SwitchInputs ==
    {[kind |-> "switch", from_env |-> f, to_env |-> t, drain_time |-> d] :
        f \in Envs, t \in Envs, d \in Around(DrainTime)}

\* the validator is asked about the signals
ValidateSwitch ==
    LET r == validate_switch(input)
    IN  /\ input.kind = "signals"
        /\ result' = [NoResult EXCEPT !.op = "validate_switch",
                                      !.status = input.status,
                                      !.ok = r.ok,
                                      !.reasons = r.reasons]
        /\ UNCHANGED <<cb, now, state, completed, streak, requests, config,
                       backups, threads, input, history, haproxy>>

\* valid, msg = check_resource_availability(cpu_usage, memory_usage)
CheckResources ==
    LET r == check_resource_availability(input.cpu_usage, input.memory_usage)
    IN  /\ input.kind = "signals"
        /\ result' = [NoResult EXCEPT !.op = "check_resource_availability",
                                      !.ok = r.ok,
                                      !.reasons = r.reasons]
        /\ UNCHANGED <<cb, now, state, completed, streak, requests, config,
                       backups, threads, input, history, haproxy>>

\* conditions = should_rollback(error_rate, response_time, availability);
\* a rollback is triggered when len(conditions) > 0
ShouldRollback ==
    LET conditions == should_rollback(input.error_rate, input.response_time,
                                      input.availability)
    IN  /\ input.kind = "metrics"
        /\ result' = [NoResult EXCEPT !.op = "should_rollback",
                                      !.ok = Len(conditions) > 0,
                                      !.reasons = conditions]
        /\ UNCHANGED <<cb, now, state, completed, streak, requests, config,
                       backups, threads, input, history, haproxy>>

\* the next step of perform_graceful_switch is carried out; after the last
\* one the function returns "success": True
GracefulStep ==
    LET switch_steps == perform_graceful_switch(input.from_env, input.to_env,
                                                input.drain_time)
        k == Len(haproxy.steps) + 1
    IN  /\ input.kind = "switch"
        /\ k <= Len(switch_steps)
        /\ haproxy' = ExecuteStep(haproxy, switch_steps[k])
        /\ result' = IF k = Len(switch_steps)
                     THEN [NoResult EXCEPT !.op = "perform_graceful_switch",
                                           !.arg = input.to_env,
                                           !.ok = TRUE]
                     ELSE result
        /\ UNCHANGED <<cb, now, state, completed, streak, requests, config,
                       backups, threads, input, history>>

InitChecks ==
    /\ cb = [t \in Teams |-> InitialBreaker]
    /\ now = 0
    /\ state = InitialState
    /\ completed = [t \in Teams |-> 0]
    /\ streak = [t \in Teams |-> 0]
    /\ requests = 0
    /\ config = NoFile
    /\ backups = 0
    /\ result = NoResult
    /\ threads = NoThreads
    /\ input \in SignalInputs \cup MetricInputs \cup SwitchInputs
    /\ history = NoHistory
    /\ IF input.kind = "switch"
       THEN \E standby \in SUBSET {input.to_env} :
               haproxy = [NoRouting EXCEPT
                             !.enabled = {input.from_env} \cup standby,
                             !.primary = input.from_env]
       ELSE haproxy = NoRouting

NextChecks ==
    \/ ValidateSwitch
    \/ CheckResources
    \/ ShouldRollback
    \/ GracefulStep

SpecChecks == InitChecks /\ [][NextChecks]_vars

(***************************************************************************)
(* Concurrent switches (test_multi_team.py, test_concurrent_team_switches):*)
(* max_workers threads each run switch_team_environment on the one state   *)
(* file.  A thread reads the whole file, changes its team's record in      *)
(* memory, opens the file for writing, which empties it, and dumps its     *)
(* copy.  A thread that finds the file empty or half written gets an       *)
(* exception from json.load and reports success False.                     *)
(***************************************************************************)
max_workers == 2        \* ThreadPoolExecutor(max_workers=2)
Workers == 1..max_workers

\* the file between open(state_file, 'w') and the end of json.dump
EmptyFile == <<>>

\* a thread that has been submitted and has not run yet
Submitted(team_name, target_env) ==
    [team |-> team_name, target_env |-> target_env, pc |-> "load",
     read |-> EmptyFile, state |-> EmptyFile, success |-> FALSE]

\* the thread has returned
Returned(th, success) == [th EXCEPT !.pc = "done", !.success = success]

\* what a thread that has returned put into results
Reported(th) ==
    [NoResult EXCEPT !.op = "switch_team_environment",
                     !.team = th.team,
                     !.arg = th.target_env,
                     !.ok = th.success]

\* json.load(f) and the three assignments to state["teams"][team_name]
LoadState(i) ==
    LET th == threads[i]
        run == switch_team_environment(state, th.team, th.target_env)
    IN  /\ th.pc = "load"
        /\ IF state = EmptyFile \/ ~run.success
           THEN /\ threads' = [threads EXCEPT ![i] = Returned(th, FALSE)]
                /\ result' = Reported(Returned(th, FALSE))
           ELSE /\ threads' = [threads EXCEPT ![i] =
                                  [th EXCEPT !.pc = "open",
                                             !.read = state,
                                             !.state = run.state]]
                /\ UNCHANGED result
        /\ UNCHANGED <<cb, now, state, completed, streak, requests, config,
                       backups, input, history, haproxy>>

\* open(blue_green_state_file, 'w')
OpenState(i) ==
    /\ threads[i].pc = "open"
    /\ state' = EmptyFile
    /\ threads' = [threads EXCEPT ![i].pc = "dump"]
    /\ UNCHANGED <<cb, now, completed, streak, requests, config, backups,
                   result, input, history, haproxy>>

\* json.dump(state, f) and results[team_name] = {"success": True, ...}
DumpState(i) ==
    /\ threads[i].pc = "dump"
    /\ state' = threads[i].state
    /\ threads' = [threads EXCEPT ![i] = Returned(@, TRUE)]
    /\ result' = Reported(Returned(threads[i], TRUE))
    /\ UNCHANGED <<cb, now, completed, streak, requests, config, backups,
                   input, history, haproxy>>

InitConcurrent ==
    /\ cb = [t \in Teams |-> InitialBreaker]
    /\ now = 0
    /\ state = InitialState
    /\ completed = [t \in Teams |-> 0]
    /\ streak = [t \in Teams |-> 0]
    /\ requests = 0
    /\ config = NoFile
    /\ backups = 0
    /\ result = NoResult
    /\ threads \in [Workers -> {Submitted(n, e) : n \in Names, e \in Envs}]
    /\ input = NoInput
    /\ history = NoHistory
    /\ haproxy = NoRouting

NextConcurrent ==
    \/ \E i \in Workers : LoadState(i)
    \/ \E i \in Workers : OpenState(i)
    \/ \E i \in Workers : DumpState(i)

SpecConcurrent == InitConcurrent /\ [][NextConcurrent]_vars

(***************************************************************************)
(* Concurrent operations on one team's circuit_breaker.json.  An admission *)
(* check is can_execute_switch: it loads the file, decides, and for the    *)
(* half-open transition opens the file for writing, which empties it, and  *)
(* dumps its copy.  A failure report loads the file, runs                  *)
(* update_circuit_breaker on its copy and stores the copy; the repository  *)
(* has no code that stores it, the store is one step here.  json.load of   *)
(* an empty file raises, and neither function catches it.                  *)
(***************************************************************************)
\* circuit_breaker.json between open(cb_file, 'w') and the end of json.dump
EmptyBreaker ==
    [state |-> "", failure_count |-> 0,
     last_failure_time |-> NONE, cooldown_until |-> 0]

RECURSIVE AfterFailures(_)
\* the record after n failures in a row were reported at time 0
AfterFailures(n) ==
    IF n = 0 THEN InitialBreaker
    ELSE update_circuit_breaker(AfterFailures(n - 1), TRUE, 0)

\* a call of op ("failure" or "admission") for team t that has not run yet
Called(op, t) ==
    [op |-> op, team |-> t, pc |-> "load", cb |-> EmptyBreaker,
     success |-> FALSE]

\* with open(cb_file, 'r') as f: state = json.load(f), and the decision
AdmissionLoad(i) ==
    LET th == threads[i]
        r == can_execute_switch(cb[th.team], now)
    IN  /\ th.op = "admission"
        /\ th.pc = "load"
        /\ IF cb[th.team] = EmptyBreaker
           THEN /\ threads' = [threads EXCEPT ![i].pc = "raised"]
                /\ UNCHANGED result
           ELSE IF r.cb # cb[th.team]
           THEN /\ threads' = [threads EXCEPT ![i].pc = "open",
                                              ![i].cb = r.cb]
                /\ UNCHANGED result
           ELSE /\ threads' = [threads EXCEPT ![i].pc = "done",
                                              ![i].cb = r.cb,
                                              ![i].success = r.ok]
                /\ result' = [NoResult EXCEPT !.op = "can_execute_switch",
                                              !.team = th.team,
                                              !.ok = r.ok,
                                              !.msg = r.msg,
                                              !.before = cb[th.team].state]
        /\ UNCHANGED <<cb, now, state, completed, streak, requests, config,
                       backups, input, history, haproxy>>

\* open(cb_file, 'w')
AdmissionOpen(i) ==
    /\ threads[i].op = "admission"
    /\ threads[i].pc = "open"
    /\ cb' = [cb EXCEPT ![threads[i].team] = EmptyBreaker]
    /\ threads' = [threads EXCEPT ![i].pc = "dump"]
    /\ UNCHANGED <<now, state, completed, streak, requests, config, backups,
                   result, input, history, haproxy>>

\* json.dump(state, f) and return True, "Circuit breaker half-open ..."
AdmissionDump(i) ==
    /\ threads[i].op = "admission"
    /\ threads[i].pc = "dump"
    /\ cb' = [cb EXCEPT ![threads[i].team] = threads[i].cb]
    /\ threads' = [threads EXCEPT ![i].pc = "done", ![i].success = TRUE]
    /\ result' = [NoResult EXCEPT
                     !.op = "can_execute_switch",
                     !.team = threads[i].team,
                     !.ok = TRUE,
                     !.msg = "Circuit breaker half-open - single attempt allowed",
                     !.before = "open"]
    /\ UNCHANGED <<now, state, completed, streak, requests, config, backups,
                   input, history, haproxy>>

\* cb_state = json.load(f) and update_circuit_breaker(cb_state, True)
FailureLoad(i) ==
    LET th == threads[i]
    IN  /\ th.op = "failure"
        /\ th.pc = "load"
        /\ IF cb[th.team] = EmptyBreaker
           THEN threads' = [threads EXCEPT ![i].pc = "raised"]
           ELSE threads' = [threads EXCEPT
                               ![i].pc = "store",
                               ![i].cb = update_circuit_breaker(cb[th.team],
                                                                TRUE, now)]
        /\ UNCHANGED <<cb, now, state, completed, streak, requests, config,
                       backups, result, input, history, haproxy>>

\* the updated record is stored
FailureStore(i) ==
    /\ threads[i].op = "failure"
    /\ threads[i].pc = "store"
    /\ cb' = [cb EXCEPT ![threads[i].team] = threads[i].cb]
    /\ threads' = [threads EXCEPT ![i].pc = "done", ![i].success = TRUE]
    /\ result' = [NoResult EXCEPT !.op = "update_circuit_breaker",
                                  !.team = threads[i].team,
                                  !.arg = "failure",
                                  !.ok = TRUE]
    /\ UNCHANGED <<now, state, completed, streak, requests, config, backups,
                   input, history, haproxy>>

\* two calls for one team's breaker, which has had 0..FailureThreshold
\* failures at time 0, made after none or all of the cooldown has passed
InitRace ==
    /\ \E t \in Teams, n \in 0..FailureThreshold :
          /\ cb = [u \in Teams |-> IF u = t THEN AfterFailures(n)
                                            ELSE InitialBreaker]
          /\ input = [kind |-> "race", team |-> t, start |-> AfterFailures(n)]
          /\ threads \in [Workers ->
                             {Called(op, t) : op \in {"failure", "admission"}}]
    /\ now \in {0, CooldownSeconds}
    /\ state = InitialState
    /\ completed = [t \in Teams |-> 0]
    /\ streak = [t \in Teams |-> 0]
    /\ requests = 0
    /\ config = NoFile
    /\ backups = 0
    /\ result = NoResult
    /\ history = NoHistory
    /\ haproxy = NoRouting

NextRace ==
    \/ \E i \in Workers : AdmissionLoad(i)
    \/ \E i \in Workers : AdmissionOpen(i)
    \/ \E i \in Workers : AdmissionDump(i)
    \/ \E i \in Workers : FailureLoad(i)
    \/ \E i \in Workers : FailureStore(i)

SpecRace == InitRace /\ [][NextRace]_vars

(***************************************************************************)
(* The routing generators of test_haproxy_routing.py and                   *)
(* test_ssl_certificates.py, called on sets of team states.  A server name *)
(* f"jenkins-{team_name}-{env}" is the pair of its team and environment;   *)
(* a dictionary keyed by team name is a function on the names.             *)
(***************************************************************************)

\* 'green' if active_env == 'blue' else 'blue'
OtherEnvironment(active_env) == IF active_env = "blue" THEN "green" ELSE "blue"

\* f"jenkins-{team_name}-{env}"
ServerName(team_name, env) == [team |-> team_name, env |-> env]

\* the team names of a list of team states
TeamNames(team_configs) ==
    {team_configs[i].team_name : i \in 1..Len(team_configs)}

\* the entry a loop over the list leaves under a team's key: the last one
EntryOf(team_configs, team_name) ==
    team_configs[CHOOSE i \in 1..Len(team_configs) :
                    /\ team_configs[i].team_name = team_name
                    /\ \A j \in (i + 1)..Len(team_configs) :
                          team_configs[j].team_name # team_name]

\* update_haproxy_routing that names the other environment's server first
update_haproxy_routing_swapped(active_environment, team_configs) ==
    [frontend |-> "jenkins_frontend",
     backends |->
        [n \in TeamNames(team_configs) |->
            LET active_env == EntryOf(team_configs, n).active_environment
            IN  [primary |-> ServerName(n, OtherEnvironment(active_env)),
                 backup |-> ServerName(n, active_env),
                 active_port |-> IF active_env = "blue" THEN 8080
                                                          ELSE 8081]]]

\* update_haproxy_routing that routes every team to its first argument
update_haproxy_routing_global(active_environment, team_configs) ==
    [frontend |-> "jenkins_frontend",
     backends |->
        [n \in TeamNames(team_configs) |->
            [primary |-> ServerName(n, active_environment),
             backup |-> ServerName(n, OtherEnvironment(active_environment)),
             active_port |-> IF active_environment = "blue" THEN 8080
                                                              ELSE 8081]]]

\* update_haproxy_routing(active_environment, team_configs)
update_haproxy_routing(active_environment, team_configs) ==
    [frontend |-> "jenkins_frontend",
     backends |->
        [n \in TeamNames(team_configs) |->
            LET active_env == EntryOf(team_configs, n).active_environment
            IN  [primary |-> ServerName(n, active_env),
                 backup |-> ServerName(n, OtherEnvironment(active_env)),
                 active_port |-> IF active_env = "blue" THEN 8080
                                                          ELSE 8081]]]

\* configure_team_routing whose backup server is always the blue one
configure_team_routing_blue(teams) ==
    [n \in TeamNames(teams) |->
        LET active_env == EntryOf(teams, n).active_environment
        IN  [acl |-> <<"path_beg", n>>,
             backend |-> <<"jenkins", n, "backend">>,
             primary_server |-> ServerName(n, active_env),
             backup_server |-> ServerName(n, "blue"),
             health_check |-> <<"httpchk GET", n, "login">>]]

\* configure_team_routing(teams)
configure_team_routing(teams) ==
    [n \in TeamNames(teams) |->
        LET active_env == EntryOf(teams, n).active_environment
        IN  [acl |-> <<"path_beg", n>>,
             backend |-> <<"jenkins", n, "backend">>,
             primary_server |-> ServerName(n, active_env),
             backup_server |-> ServerName(n, OtherEnvironment(active_env)),
             health_check |-> <<"httpchk GET", n, "login">>]]

\* generate_haproxy_ssl_config(teams, ssl_cert_path): the sections of the
\* text, the global one, the frontend, then one for each entry of the list;
\* in a team's section the first server line is the primary and the line
\* with "backup" the backup
generate_haproxy_ssl_config(teams, ssl_cert_path) ==
    << [section |-> "global", team |-> "", ssl_min_ver |-> "TLSv1.2"],
       [section |-> "frontend", team |-> "", crt |-> ssl_cert_path,
        hsts |-> TRUE] >>
    \o [i \in 1..Len(teams) |->
          LET team_name == teams[i].team_name
              active_env == teams[i].active_environment
          IN  [section |-> "team",
               team |-> team_name,
               acl |-> <<"hdr_beg(host)", team_name, "jenkins.">>,
               backend |-> <<"jenkins", team_name, "backend">>,
               health_check |-> <<"httpchk GET", team_name, "login">>,
               server |-> ServerName(team_name, active_env),
               backup_server |->
                   ServerName(team_name, OtherEnvironment(active_env))]]

\* one team's state as the generators read it
TeamConfigs == [team_name : Teams, active_environment : Envs]

\* the sets of team states, one state for each team of the set, in each
\* order a list can hold them
TeamStateLists ==
    {<<>>} \cup {<<a>> : a \in TeamConfigs}
           \cup {l \in {<<a, b>> : a \in TeamConfigs, b \in TeamConfigs} :
                    l[1].team_name # l[2].team_name}

CertPaths == {"/etc/ssl/certs/wildcard-company.com.pem", "/tmp/other.pem"}

NoCall == [fn |-> "none", arg |-> "", teams |-> <<>>, out |-> <<>>]

\* a generator has returned: the call and its result, and the call before it
Generated(fn, arg, teams, out) ==
    /\ haproxy' = [fn |-> fn, arg |-> arg, teams |-> teams, out |-> out]
    /\ history' = haproxy
    /\ UNCHANGED <<cb, now, state, completed, streak, requests, config,
                   backups, result, threads, input>>

UpdateRouting(active_environment, team_configs) ==
    Generated("update_haproxy_routing", active_environment, team_configs,
              update_haproxy_routing(active_environment, team_configs))

ConfigureRouting(teams) ==
    Generated("configure_team_routing", "", teams,
              configure_team_routing(teams))

GenerateSslConfig(teams, ssl_cert_path) ==
    Generated("generate_haproxy_ssl_config", ssl_cert_path, teams,
              generate_haproxy_ssl_config(teams, ssl_cert_path))

InitGenerator ==
    /\ cb = [t \in Teams |-> InitialBreaker]
    /\ now = 0
    /\ state = InitialState
    /\ completed = [t \in Teams |-> 0]
    /\ streak = [t \in Teams |-> 0]
    /\ requests = 0
    /\ config = NoFile
    /\ backups = 0
    /\ result = NoResult
    /\ threads = NoThreads
    /\ input = NoInput
    /\ history = NoCall
    /\ haproxy = NoCall

NextGenerator ==
    \/ \E e \in Envs, tc \in TeamStateLists : UpdateRouting(e, tc)
    \/ \E tc \in TeamStateLists : ConfigureRouting(tc)
    \/ \E tc \in TeamStateLists, p \in CertPaths : GenerateSslConfig(tc, p)

SpecGenerator == InitGenerator /\ [][NextGenerator]_vars

(***************************************************************************)
(* One switch from its first step to the routing the Traffic Router is     *)
(* given: the steps of perform_graceful_switch one at a time, any of which *)
(* may fail, then the state file, then update_haproxy_routing on the       *)
(* stored states.  The repository has no function that puts these          *)
(* together; the order is that of the design (the state is stored after    *)
(* the last step, routing is generated after the state is stored, and the  *)
(* step "Switch primary backend" designates the backend for the routing    *)
(* that is generated then).  history keeps, for each team, the             *)
(* environments stored for it so far.                                      *)
(***************************************************************************)

\* the teams of the state file in the order of the file
TeamOrder == <<"devops", "qa">>

\* the team states the generator is given: those of the state file
TeamStatesOf(st) ==
    [i \in 1..Len(TeamOrder) |->
        [team_name |-> TeamOrder[i],
         active_environment |-> st[TeamOrder[i]].active_environment]]

\* the routing the Traffic Router is given for the stored states
Published(active_environment, st) ==
    [fn |-> "update_haproxy_routing",
     arg |-> active_environment,
     teams |-> TeamStatesOf(st),
     out |-> update_haproxy_routing(active_environment, TeamStatesOf(st))]

\* a switch of a team is asked for
BeginSwitch(team_name, target_env) ==
    /\ input = NoInput
    /\ state[team_name].switch_count < MaxSwitch
    /\ input' = [kind |-> "switch",
                 team |-> team_name,
                 from |-> state[team_name].active_environment,
                 to |-> target_env,
                 done |-> 0,
                 designated |-> ABSENT]
    /\ UNCHANGED <<cb, now, state, completed, streak, requests, config,
                   backups, result, threads, history, haproxy>>

\* the next step of the switch succeeds
RunStep ==
    /\ input.kind = "switch"
    /\ input.done < Len(GracefulSteps)
    /\ LET step == perform_graceful_switch(input.from, input.to,
                                           DrainTime)[input.done + 1]
       IN  input' = [input EXCEPT
                        !.done = @ + 1,
                        !.designated =
                            IF step.text = "Switch primary backend"
                            THEN step.env ELSE @]
    /\ UNCHANGED <<cb, now, state, completed, streak, requests, config,
                   backups, result, threads, history, haproxy>>

\* the next step of the switch fails: the switch is given up
FailStep ==
    /\ input.kind = "switch"
    /\ input.done < Len(GracefulSteps)
    /\ result' = [NoResult EXCEPT
                     !.op = "user",
                     !.team = input.team,
                     !.arg = input.to,
                     !.msg = "failed",
                     !.reasons = Failed(GracefulSteps[input.done + 1],
                                        input.done + 1).reasons]
    /\ input' = NoInput
    /\ UNCHANGED <<cb, now, state, completed, streak, requests, config,
                   backups, threads, history, haproxy>>

\* every step has succeeded: the state file is written
CommitSwitch ==
    /\ input.kind = "switch"
    /\ input.done = Len(GracefulSteps)
    /\ state' = switch_team_environment(state, input.team, input.to).state
    /\ history' = [history EXCEPT ![input.team] = @ \cup {input.to}]
    /\ input' = [input EXCEPT !.kind = "committed"]
    /\ UNCHANGED <<cb, now, completed, streak, requests, config, backups,
                   result, threads, haproxy>>

\* the routing is generated from the state file and given to the router
RegenerateRouting ==
    /\ input.kind = "committed"
    /\ haproxy' = Published(input.designated, state)
    /\ result' = [NoResult EXCEPT !.op = "user",
                                  !.team = input.team,
                                  !.arg = input.to,
                                  !.msg = "success",
                                  !.ok = TRUE]
    /\ input' = NoInput
    /\ UNCHANGED <<cb, now, state, completed, streak, requests, config,
                   backups, threads, history>>

InitRouting ==
    /\ cb = [t \in Teams |-> InitialBreaker]
    /\ now = 0
    /\ state = InitialState
    /\ completed = [t \in Teams |-> 0]
    /\ streak = [t \in Teams |-> 0]
    /\ requests = 0
    /\ config = NoFile
    /\ backups = 0
    /\ result = NoResult
    /\ threads = NoThreads
    /\ input = NoInput
    /\ history = [t \in Teams |-> {InitialState[t].active_environment}]
    /\ \E e \in Envs : haproxy = Published(e, InitialState)

NextRouting ==
    \/ \E n \in Teams, e \in Envs : BeginSwitch(n, e)
    \/ RunStep
    \/ FailStep
    \/ CommitSwitch
    \/ RegenerateRouting

SpecRouting == InitRouting /\ [][NextRouting]_vars

(***************************************************************************)
(* Certificate rotation: rotate_certificates and                           *)
(* attempt_certificate_rollback of test_ssl_certificates.py.  The          *)
(* repository names the steps of a rotation and does not carry them out;   *)
(* what a step does to the certificate files and to the certificate the    *)
(* Traffic Router serves, and the rollback that a failed step starts, are  *)
(* those of the design.  Here haproxy is [files, staged, active, verified, *)
(* done]: the certificate files that exist, the certificate staged at and  *)
(* the one served by the router, whether the new one passed its health     *)
(* checks, and the number of steps done.                                   *)
(***************************************************************************)

\* rotate_certificates: rotation_steps for a strategy
rotation_steps(rotation_strategy) ==
    CASE rotation_strategy = "zero-downtime" ->
           <<"Generate new certificate with updated SAN list",
             "Create new certificate bundle",
             "Update load balancer configuration (staged)",
             "Test new certificate with health checks",
             "Switch traffic to new certificate",
             "Verify certificate functionality",
             "Remove old certificate files">>
      [] rotation_strategy = "maintenance-window" ->
           <<"Schedule maintenance window",
             "Stop services temporarily",
             "Generate new certificate",
             "Update all configurations",
             "Restart services",
             "Verify certificate functionality">>
      [] OTHER -> <<>>

\* rotate_certificates(current_cert_path, teams, rotation_strategy)
rotate_certificates(current_cert_path, teams, rotation_strategy) ==
    [strategy |-> rotation_strategy,
     steps_completed |-> Len(rotation_steps(rotation_strategy)),
     total_steps |-> Len(rotation_steps(rotation_strategy)),
     success |-> TRUE,
     new_cert_path |-> "rotated-cert.crt",
     rollback_available |-> TRUE,
     downtime |-> IF rotation_strategy = "zero-downtime" THEN 0 ELSE 60]

\* attempt_certificate_rollback that goes on without the backup
attempt_certificate_rollback_blind(files, current_cert, backup_cert, failure_reason) ==
    [rollback_successful |-> TRUE,
     steps_completed |-> <<"Validated backup certificate exists",
                           "Restored backup certificate",
                           "Updated load balancer configuration",
                           "Restarted affected services",
                           "Verified certificate functionality">>,
     active_certificate |-> backup_cert,
     error |-> ABSENT,
     failure_reason |-> failure_reason]

\* attempt_certificate_rollback(current_cert, backup_cert, failure_reason)
\* where files are the paths that exist; a key the result lacks is ABSENT
attempt_certificate_rollback(files, current_cert, backup_cert, failure_reason) ==
    IF backup_cert \notin files
    THEN [rollback_successful |-> FALSE,
          steps_completed |-> <<>>,
          active_certificate |-> ABSENT,
          error |-> "Backup certificate not found",
          failure_reason |-> failure_reason]
    ELSE [rollback_successful |-> TRUE,
          steps_completed |-> <<"Validated backup certificate exists",
                                "Restored backup certificate",
                                "Updated load balancer configuration",
                                "Restarted affected services",
                                "Verified certificate functionality">>,
          active_certificate |-> backup_cert,
          error |-> ABSENT,
          failure_reason |-> failure_reason]

\* the steps that test the new certificate
VerificationSteps ==
    {"Test new certificate with health checks",
     "Verify certificate functionality"}

\* the steps that may fail, and the reason a failure of each is reported with
FailureReason(step) ==
    CASE step \in VerificationSteps -> "New certificate validation failed"
      [] step \in {"Generate new certificate with updated SAN list",
                   "Generate new certificate"} ->
             "Certificate generation failed"
      [] OTHER -> ABSENT

\* what a step of a rotation does
RotationStep(h, step, current_cert) ==
    LET done == [h EXCEPT !.done = @ + 1]
    IN  CASE step = "Create new certificate bundle"
               \/ step = "Generate new certificate" ->
               [done EXCEPT !.files = @ \cup {"rotated-cert.crt"}]
          [] step = "Update load balancer configuration (staged)" ->
               [done EXCEPT !.staged = "rotated-cert.crt"]
          [] step = "Test new certificate with health checks" ->
               [done EXCEPT !.verified = TRUE]
          [] step = "Switch traffic to new certificate"
               \/ step = "Update all configurations" ->
               [done EXCEPT !.active = "rotated-cert.crt"]
          [] step = "Remove old certificate files" ->
               [done EXCEPT !.files = @ \ {current_cert}]
          [] OTHER -> done

\* the next step of the rotation succeeds; after the last one
\* rotate_certificates returns
RotateStep ==
    /\ input.kind = "rotation"
    /\ haproxy.done < Len(rotation_steps(input.strategy))
    /\ haproxy' = RotationStep(haproxy,
                               rotation_steps(input.strategy)[haproxy.done + 1],
                               input.current_cert)
    /\ IF haproxy'.done = Len(rotation_steps(input.strategy))
       THEN LET r == rotate_certificates(input.current_cert, input.teams,
                                         input.strategy)
            IN  /\ result' = [op |-> "rotate", ok |-> r.success,
                              steps_completed |-> r.steps_completed,
                              active_certificate |-> r.new_cert_path,
                              error |-> ABSENT, failure_reason |-> ABSENT]
                /\ input' = [input EXCEPT !.kind = "rotated"]
       ELSE UNCHANGED <<result, input>>
    /\ UNCHANGED <<cb, now, state, completed, streak, requests, config,
                   backups, threads, history>>

\* the next step of the rotation fails: the rollback is attempted
FailRotation ==
    /\ input.kind = "rotation"
    /\ haproxy.done < Len(rotation_steps(input.strategy))
    /\ LET step == rotation_steps(input.strategy)[haproxy.done + 1]
           r == attempt_certificate_rollback(haproxy.files,
                                             input.current_cert,
                                             input.backup_cert,
                                             FailureReason(step))
       IN  /\ FailureReason(step) # ABSENT
           /\ result' = [op |-> "rollback", ok |-> r.rollback_successful,
                         steps_completed |-> r.steps_completed,
                         active_certificate |-> r.active_certificate,
                         error |-> r.error,
                         failure_reason |-> r.failure_reason]
           /\ haproxy' = IF r.rollback_successful
                         THEN [haproxy EXCEPT !.active = r.active_certificate,
                                              !.staged = ABSENT]
                         ELSE haproxy
           /\ history' = haproxy
           /\ input' = [input EXCEPT !.kind = "failed"]
    /\ UNCHANGED <<cb, now, state, completed, streak, requests, config,
                   backups, threads>>

\* a rotation is started on the served certificate, with or without the
\* backup file the rollback would need
InitCert ==
    /\ cb = [t \in Teams |-> InitialBreaker]
    /\ now = 0
    /\ state = InitialState
    /\ completed = [t \in Teams |-> 0]
    /\ streak = [t \in Teams |-> 0]
    /\ requests = 0
    /\ config = NoFile
    /\ backups = 0
    /\ result = [op |-> "none", ok |-> FALSE, steps_completed |-> <<>>,
                 active_certificate |-> ABSENT, error |-> ABSENT,
                 failure_reason |-> ABSENT]
    /\ threads = NoThreads
    /\ \E s \in {"zero-downtime", "maintenance-window"},
          b \in {"backup.crt", "missing-backup.crt"},
          tc \in {l \in TeamStateLists : Len(l) > 0} :
          input = [kind |-> "rotation", strategy |-> s,
                   current_cert |-> "current.crt", backup_cert |-> b,
                   teams |-> tc]
    /\ \E kept \in SUBSET {"backup.crt"} :
          haproxy = [files |-> {"current.crt"} \cup kept,
                     staged |-> ABSENT,
                     active |-> "current.crt",
                     verified |-> FALSE,
                     done |-> 0]
    /\ history = haproxy

NextCert ==
    \/ RotateStep
    \/ FailRotation

SpecCert == InitCert /\ [][NextCert]_vars

(***************************************************************************)
(* Properties of the circuit breaker, checked under SpecBreaker.           *)
(***************************************************************************)

\* C5: failure_count counts the failures reported since the last success; the
\* breaker is closed while fewer than FailureThreshold of them were reported,
\* the report that brings the count to the threshold (or beyond) leaves it
\* open, and a reported success leaves failure_count = 0 and state closed.
C5_FailureCounting ==
    \A t \in Teams :
        /\ cb[t].failure_count = streak[t]
        /\ streak[t] < FailureThreshold => cb[t].state = "closed"
        /\ streak[t] >= FailureThreshold => cb[t].state \in {"open", "half-open"}
        /\ (result.op = "update_circuit_breaker" /\ result.team = t) =>
              /\ (result.arg = "failure" /\ streak[t] >= FailureThreshold)
                    => cb[t].state = "open"
              /\ result.arg = "success"
                    => cb[t].state = "closed" /\ cb[t].failure_count = 0

\* the third failure in a row has just been reported and opened the breaker
C5_Witness ==
    /\ result.op = "update_circuit_breaker"
    /\ result.arg = "failure"
    /\ result.before = "closed"
    /\ streak[result.team] = FailureThreshold
    /\ cb[result.team].state = "open"

\* C6: an admission check on an open breaker whose cooldown has not elapsed
\* is refused with the "cooldown active" message and changes nothing; on an
\* open breaker whose cooldown has elapsed it is admitted and moves the
\* breaker to half-open; on a closed breaker it is admitted; and no step
\* takes a breaker from open to half-open before cooldown_until.
C6_Admission ==
    [][\A t \in Teams :
          /\ CheckAdmission(t) =>
                /\ (cb[t].state = "open" /\ now < cb[t].cooldown_until) =>
                      /\ ~result'.ok
                      /\ CooldownActive(result'.msg)
                      /\ cb' = cb
                /\ (cb[t].state = "open" /\ now >= cb[t].cooldown_until) =>
                      /\ result'.ok
                      /\ cb'[t].state = "half-open"
                /\ cb[t].state = "closed" => result'.ok /\ cb' = cb
          /\ (cb[t].state = "open" /\ cb'[t].state = "half-open")
                => now >= cb[t].cooldown_until
      ]_vars

\* the first admission check after the cooldown was admitted and moved the
\* breaker to half-open
C6_Witness ==
    /\ result.op = "can_execute_switch"
    /\ result.before = "open"
    /\ result.ok
    /\ cb[result.team].state = "half-open"
    /\ now >= cb[result.team].cooldown_until

\* C7: an admission check made while the breaker is half-open (the trial's
\* outcome has not been reported) is not admitted.
C7_SingleTrial ==
    (result.op = "can_execute_switch" /\ result.before = "half-open")
        => ~result.ok

\* C8: an outcome reported on a half-open breaker never leaves it half-open:
\* a failure opens it with cooldown_until = now + CooldownSeconds, a success
\* closes it with failure_count = 0.
C8_TrialOutcome ==
    [][\A t \in Teams :
          /\ (cb[t].state = "half-open" /\ ReportOutcome(t, TRUE)) =>
                /\ cb'[t].state = "open"
                /\ cb'[t].cooldown_until = now + CooldownSeconds
          /\ (cb[t].state = "half-open" /\ ReportOutcome(t, FALSE)) =>
                /\ cb'[t].state = "closed"
                /\ cb'[t].failure_count = 0
      ]_vars

\* the trial of a half-open breaker has just failed and reopened it
C8_Witness ==
    /\ result.op = "update_circuit_breaker"
    /\ result.arg = "failure"
    /\ result.before = "half-open"
    /\ cb[result.team].state = "open"

\* C9 as stated: no step takes a breaker from open directly to closed.
C9_NeverOpenToClosed ==
    [][\A t \in Teams : ~(cb[t].state = "open" /\ cb'[t].state = "closed")]_vars

\* C9 as amended: the only step that takes a breaker from open directly to
\* closed is a reported success; a reported failure, an admission check and
\* a recovery attempt never do.
C9_OpenToClosedOnlyBySuccess ==
    [][\A t \in Teams :
          (cb[t].state = "open" /\ cb'[t].state = "closed") =>
              /\ result'.op = "update_circuit_breaker"
              /\ result'.arg = "success"
              /\ result'.team = t
      ]_vars

\* a success was reported on an open breaker and closed it
C9_Witness ==
    /\ result.op = "update_circuit_breaker"
    /\ result.arg = "success"
    /\ result.before = "open"
    /\ cb[result.team].state = "closed"

C1_SwitchCount ==
    [][\A t \in Teams :
          /\ state'[t].switch_count = completed'[t]
          /\ state'[t].switch_count >= state[t].switch_count
          /\ (now' = now
                /\ result'.msg \in {"blocked", "circuit_open", "failed"})
                => state'[t].switch_count = state[t].switch_count
      ]_vars

\* a team has switched twice, once by rollback, and a later request of that
\* team was not carried out
C1_Witness ==
    /\ result.msg \in {"blocked", "circuit_open", "failed"}
    /\ result.team \in Teams
    /\ state[result.team].switch_count = 2
    /\ state[result.team].last_rollback_reason # ABSENT
    /\ state[result.team].last_switch_time = 1

\* a status outside 200..299
NonSuccess(status) == status < 200 \/ status > 299

C19_RollbackGated ==
    [][\A t \in Teams :
          (/\ now' = now
           /\ result'.op = "rollback"
           /\ result'.team = t) =>
              /\ result'.msg # "blocked"
              /\ (cb[t].state = "open" /\ now < cb[t].cooldown_until) =>
                    /\ result'.msg = "circuit_open"
                    /\ ~result'.ok
                    /\ state' = state
      ]_vars

\* a rollback asked for while the target answered 503 was not stopped by
\* the validator and was refused by the open breaker
C19_Witness ==
    /\ result.op = "rollback"
    /\ result.status = 503
    /\ result.msg = "circuit_open"
    /\ result.team \in Teams
    /\ cb[result.team].state = "open"
    /\ now < cb[result.team].cooldown_until

(***************************************************************************)
(* Properties of update-team-environment.py, checked under SpecUpdate.     *)
(***************************************************************************)

\* C2: after an update that returned True the file holds the requested
\* environment as the team's active_environment.
C2_SuccessPersists ==
    (result.op = "update" /\ result.ok)
        => PersistedEnvironment(config, result.team) = result.arg

\* C3: an update that returns False leaves the configuration file as it was.
C3_AllOrNothing ==
    [][(result'.op = "update" /\ ~result'.ok) => config' = config]_vars

(***************************************************************************)
(* Properties of concurrent switches, checked under SpecConcurrent.        *)
(***************************************************************************)
\* every thread has returned
AllReturned == \A i \in DOMAIN threads : threads[i].pc = "done"

\* C11: when two threads switch two different teams and both have reported
\* success, the state file holds for each of the two teams its requested
\* target as active_environment and a switch_count of at least 1.
C11_IndependentSwitches ==
    (/\ AllReturned
     /\ \A i \in DOMAIN threads : threads[i].success
     /\ \A i, j \in DOMAIN threads : i # j => threads[i].team # threads[j].team)
        => \A i \in DOMAIN threads :
              /\ state[threads[i].team].active_environment
                    = threads[i].target_env
              /\ state[threads[i].team].switch_count >= 1

\* C12: when two threads switch the same team, the team's switch_count has
\* grown by the number of threads that reported success, and two threads
\* that read the same file do not both report success.
C12_CompareAndSet ==
    (/\ AllReturned
     /\ state # EmptyFile
     /\ \A i, j \in DOMAIN threads : threads[i].team = threads[j].team)
        => /\ \A i \in DOMAIN threads :
                 threads[i].team \in Teams =>
                    state[threads[i].team].switch_count
                        = InitialState[threads[i].team].switch_count
                            + Cardinality({j \in DOMAIN threads :
                                               threads[j].success})
           /\ \A i, j \in DOMAIN threads :
                 (i # j /\ threads[i].success /\ threads[j].success)
                    => threads[i].read # threads[j].read

(***************************************************************************)
(* Properties of concurrent breaker operations, checked under SpecRace.    *)
(***************************************************************************)
\* the record one operation leaves when it runs alone on record s
Alone(op, s) ==
    IF op = "failure" THEN update_circuit_breaker(s, TRUE, now)
    ELSE can_execute_switch(s, now).cb

\* C13: when two operations on one breaker record have both returned, the
\* record is what running them one after the other, in one of the two
\* orders, leaves; two failure reports have raised failure_count by 2.
C13_Serializable ==
    (input.kind = "race" /\ AllReturned) =>
        LET op1 == threads[1].op
            op2 == threads[2].op
            final == cb[input.team]
        IN  /\ final \in {Alone(op2, Alone(op1, input.start)),
                          Alone(op1, Alone(op2, input.start))}
            /\ (op1 = "failure" /\ op2 = "failure")
                  => final.failure_count = input.start.failure_count + 2

(***************************************************************************)
(* Properties of the checks, checked under SpecChecks.                     *)
(***************************************************************************)
\* the four checks of the validator on the signals, in the order they run
ChecksOf(sig) ==
    <<check_active_builds(sig),
      validate_queue_size(sig.queue_size),
      validate_target_health(sig),
      check_resource_availability(sig.cpu_usage, sig.memory_usage)>>

\* C14: the validator's verdict is "allowed" exactly when the active-build,
\* queue-size, target-health and resource checks all pass; the reasons are
\* the messages of the failing checks, one for each of them in the order
\* the checks run, whether or not an earlier check failed; and the verdict
\* is "allowed" exactly when there is no reason.
C14_EveryCheckRuns ==
    result.op = "validate_switch" =>
        LET checks == ChecksOf(input)
            failing == {i \in DOMAIN checks : ~checks[i].ok}
        IN  /\ result.ok <=> failing = {}
            /\ Len(result.reasons) = Cardinality(failing)
            /\ \A i \in failing :
                  \E k \in DOMAIN result.reasons :
                     /\ result.reasons[k] = checks[i].reasons[1]
                     /\ k = Cardinality({j \in failing : j <= i})
            /\ result.ok <=> result.reasons = <<>>

\* all four checks failed and the validator gave four reasons
C14_Witness ==
    /\ result.op = "validate_switch"
    /\ ~result.ok
    /\ \A i \in 1..4 : ~ChecksOf(input)[i].ok
    /\ Len(result.reasons) = 4

\* C15 as stated: the resource check passes only when cpu_usage is below
\* the CPU threshold and memory_usage is below the memory threshold, a
\* value equal to its threshold not being below it.
C15_BelowThreshold ==
    (result.op = "check_resource_availability" /\ result.ok)
        => /\ input.cpu_usage < CpuThreshold
           /\ input.memory_usage < MemoryThreshold

\* does the message that failed the check name this violation
Mentions(message, text, value) ==
    \E k \in DOMAIN message : message[k] = [text |-> text, value |-> value]

\* C15 as amended: the resource check passes exactly when cpu_usage is at
\* most the CPU threshold and memory_usage is at most the memory threshold;
\* the message of a failed check names the CPU violation exactly when
\* cpu_usage is above its threshold and the memory violation exactly when
\* memory_usage is above its threshold, so both when both are.
C15_AtMostThreshold ==
    result.op = "check_resource_availability" =>
        /\ result.ok <=> /\ input.cpu_usage <= CpuThreshold
                         /\ input.memory_usage <= MemoryThreshold
        /\ result.ok <=> result.reasons = <<>>
        /\ ~result.ok =>
              /\ Len(result.reasons) = 1
              /\ Mentions(result.reasons[1], "CPU usage too high",
                       input.cpu_usage)
                    <=> input.cpu_usage > CpuThreshold
              /\ Mentions(result.reasons[1], "Memory usage too high",
                       input.memory_usage)
                    <=> input.memory_usage > MemoryThreshold

\* the check passed with both utilizations at their thresholds
C15_Witness ==
    /\ result.op = "check_resource_availability"
    /\ result.ok
    /\ input.cpu_usage = CpuThreshold
    /\ input.memory_usage = MemoryThreshold

\* C16: a rollback is triggered exactly when error_rate is above 5%, or the
\* response time is above 5000 ms, or availability is below 95%; each
\* breached condition gives one reason, which names that condition and its
\* value, in the order error rate, response time, availability; a value at
\* its threshold gives none.
C16_RollbackTrigger ==
    result.op = "should_rollback" =>
        LET breached ==
                (IF input.error_rate > ErrorRateThreshold
                 THEN <<[c |-> "error rate", v |-> input.error_rate]>>
                 ELSE <<>>)
                \o (IF input.response_time > ResponseTimeThreshold
                    THEN <<[c |-> "response time", v |-> input.response_time]>>
                    ELSE <<>>)
                \o (IF input.availability < AvailabilityThreshold
                    THEN <<[c |-> "availability", v |-> input.availability]>>
                    ELSE <<>>)
        IN  /\ result.ok <=> \/ input.error_rate > ErrorRateThreshold
                             \/ input.response_time > ResponseTimeThreshold
                             \/ input.availability < AvailabilityThreshold
            /\ Len(result.reasons) = Len(breached)
            /\ \A k \in DOMAIN breached :
                  /\ ConditionOf(result.reasons[k].text) = breached[k].c
                  /\ result.reasons[k].value = breached[k].v

\* the error rate was at its threshold and the response time above its own:
\* the rollback was triggered for the response time alone
C16_Witness ==
    /\ result.op = "should_rollback"
    /\ input.error_rate = ErrorRateThreshold
    /\ input.availability = AvailabilityThreshold
    /\ input.response_time > ResponseTimeThreshold
    /\ result.ok
    /\ Len(result.reasons) = 1
    /\ ConditionOf(result.reasons[1].text) = "response time"

\* C20: the steps of a graceful switch from A to B that have been carried
\* out are the first of: enable B, start draining A, wait the drain
\* interval, switch the primary backend to B, disable A; the function
\* returns after the fifth; A is disabled only when B is enabled and
\* primary; and at least one of the two environments is enabled.
C20_GracefulOrder ==
    (input.kind = "switch" /\ input.from_env # input.to_env) =>
        LET A == input.from_env
            B == input.to_env
            order == <<Step("Enable", B, 0),
                       Step("Start draining", A, 0),
                       Step("Wait", "", input.drain_time),
                       Step("Switch primary backend", B, 0),
                       Step("Disable", A, 0)>>
        IN  /\ Len(haproxy.steps) <= 5
            /\ haproxy.steps = SubSeq(order, 1, Len(haproxy.steps))
            /\ result.op = "perform_graceful_switch"
                  <=> Len(haproxy.steps) = 5
            /\ A \notin haproxy.enabled
                  => B \in haproxy.enabled /\ haproxy.primary = B
            /\ haproxy.enabled \cap {A, B} # {}

\* a switch from blue to green has made its five steps: green is primary
\* and the only environment enabled
C20_Witness ==
    /\ input.kind = "switch"
    /\ input.from_env = "blue"
    /\ input.to_env = "green"
    /\ result.op = "perform_graceful_switch"
    /\ Len(haproxy.steps) = 5
    /\ haproxy.enabled = {"green"}
    /\ haproxy.primary = "green"

(***************************************************************************)
(* Properties of the state file, checked under SpecState.                  *)
(***************************************************************************)
\* C17: a rollback of a team that has switched before leaves the team on
\* the environment that was active immediately before its most recent
\* switch, also when that switch was to the environment it was already on.
C17_RollbackToPrevious ==
    [][\A t \in Teams :
          (/\ result'.op = "execute_rollback"
           /\ result'.team = t
           /\ result'.ok
           /\ history[t].previous # ABSENT)
              => state'[t].active_environment = history[t].previous
      ]_vars

\* C18: a team's record has last_rollback_time, and has
\* last_rollback_reason, exactly when a rollback of that team has
\* succeeded, and the reason recorded is the one the last such rollback
\* was given; so a switch, a rollback of an unknown team or a rollback
\* that fails sets neither.
C18_RollbackMetadata ==
    \A t \in Teams :
        /\ state[t].last_rollback_time # ABSENT <=> history[t].rollbacks > 0
        /\ state[t].last_rollback_reason # ABSENT <=> history[t].rollbacks > 0
        /\ state[t].last_rollback_reason = history[t].reason

\* a rollback of an unknown team has just failed; before it one team was
\* rolled back for a low availability and the other only switched
C18_Witness ==
    /\ result.op = "execute_rollback"
    /\ ~result.ok
    /\ \E t, u \in Teams :
          /\ history[t].rollbacks > 0
          /\ state[t].last_rollback_reason = "Low availability"
          /\ history[u].rollbacks = 0
          /\ state[u].switch_count > 0
          /\ state[u].last_rollback_time = ABSENT

(***************************************************************************)
(* Properties of the routing generators, checked under SpecGenerator.      *)
(***************************************************************************)

\* the primary and backup servers a result names for a team, one pair for
\* each descriptor of that team
DescriptorsOf(call, team_name) ==
    CASE call.fn = "update_haproxy_routing" ->
           IF team_name \in DOMAIN call.out.backends
           THEN {<<call.out.backends[team_name].primary,
                   call.out.backends[team_name].backup>>}
           ELSE {}
      [] call.fn = "configure_team_routing" ->
           IF team_name \in DOMAIN call.out
           THEN {<<call.out[team_name].primary_server,
                   call.out[team_name].backup_server>>}
           ELSE {}
      [] call.fn = "generate_haproxy_ssl_config" ->
           {<<i, call.out[i].server, call.out[i].backup_server>> :
               i \in {j \in 1..Len(call.out) :
                         /\ call.out[j].section = "team"
                         /\ call.out[j].team = team_name}}
      [] OTHER -> {}

\* C21: for every set of team states each generator emits exactly one
\* descriptor for each team of the set and none for any other team; its
\* primary is the server of the team's active_environment and its backup the
\* server of the team's other environment, so the two differ and both are
\* servers of that team.
C21_OneDescriptorPerTeam ==
    haproxy.fn # "none" =>
        /\ \A n \in Teams \ TeamNames(haproxy.teams) :
              DescriptorsOf(haproxy, n) = {}
        /\ \A i \in 1..Len(haproxy.teams) :
              LET t == haproxy.teams[i]
                  ds == DescriptorsOf(haproxy, t.team_name)
              IN  /\ Cardinality(ds) = 1
                  /\ \A d \in ds :
                        LET primary == d[Len(d) - 1]
                            backup == d[Len(d)]
                        IN  /\ primary = ServerName(t.team_name,
                                                    t.active_environment)
                            /\ backup.team = t.team_name
                            /\ backup.env \in Envs \ {t.active_environment}
                            /\ primary # backup

\* routing was generated for two teams on different environments, called
\* with the environment of the second
C21_Witness ==
    /\ haproxy.fn = "update_haproxy_routing"
    /\ Len(haproxy.teams) = 2
    /\ haproxy.teams[1].active_environment = "green"
    /\ haproxy.teams[2].active_environment = "blue"
    /\ haproxy.arg = "blue"
    /\ haproxy.out.backends[haproxy.teams[1].team_name].primary.env = "green"

\* C22: two calls of a generator on the same set of team states give
\* identical descriptors, whatever the other argument of each call and
\* whatever was generated before.
C22_Idempotent ==
    (/\ haproxy.fn \in {"update_haproxy_routing", "configure_team_routing"}
     /\ history.fn = haproxy.fn
     /\ {history.teams[i] : i \in 1..Len(history.teams)}
           = {haproxy.teams[i] : i \in 1..Len(haproxy.teams)})
        => history.out = haproxy.out

\* the same two team states were given twice, in the two orders and with
\* different first arguments
C22_Witness ==
    /\ haproxy.fn = "update_haproxy_routing"
    /\ history.fn = "update_haproxy_routing"
    /\ Len(haproxy.teams) = 2
    /\ Len(history.teams) = 2
    /\ history.teams[1] = haproxy.teams[2]
    /\ history.teams[2] = haproxy.teams[1]
    /\ history.arg # haproxy.arg
    /\ history.out = haproxy.out

(***************************************************************************)
(* Properties of a switch and the routing it publishes, checked under      *)
(* SpecRouting.                                                            *)
(***************************************************************************)

\* the environment of the primary backend the router has for a team
PublishedEnvironment(t) == haproxy.out.backends[t].primary.env

\* C23: the step that gives the router new routing leaves the state file as
\* it was; the primary backend the router has for a team is always the
\* server of an environment already stored for that team; while no stored
\* change waits for its routing it is the server of the team's stored
\* active_environment, so a switch in progress or given up, whose target
\* differs from the stored environment, is not what the router has.
C23_RoutingFollowsCommit ==
    /\ [](\A t \in Teams :
            /\ t \in DOMAIN haproxy.out.backends
            /\ haproxy.out.backends[t].primary.team = t
            /\ PublishedEnvironment(t) \in history[t]
            /\ input.kind # "committed" =>
                  PublishedEnvironment(t) = state[t].active_environment
            /\ (/\ input.kind = "switch"
                /\ input.team = t
                /\ input.to # state[t].active_environment) =>
                  PublishedEnvironment(t) # input.to
            /\ (/\ input = NoInput
                /\ result.msg = "failed"
                /\ result.team = t
                /\ result.arg # state[t].active_environment) =>
                  PublishedEnvironment(t) # result.arg)
    /\ [][haproxy' # haproxy => state' = state]_vars

\* a team has switched and its routing was published; its next switch has
\* passed the step that designates the new primary backend, and the router
\* still has the stored environment
C23_Witness ==
    /\ input.kind = "switch"
    /\ input.designated = input.to
    /\ input.done < Len(GracefulSteps)
    /\ input.to # state[input.team].active_environment
    /\ state[input.team].switch_count = 1
    /\ PublishedEnvironment(input.team) = state[input.team].active_environment
    /\ result.msg = "success"

(***************************************************************************)
(* Further properties of update-team-environment.py, checked under         *)
(* SpecUpdate.                                                             *)
(***************************************************************************)

\* a field of the entry the file holds for a team, ABSENT when the file has
\* no such entry or the entry no such field
PersistedField(file, team_name, field) ==
    LET idx == find_team_in_config(file, team_name)
    IN  IF idx = 0 THEN ABSENT ELSE file.teams[idx][field]

\* C24: an update for a team whose blue_green_enabled is false returns False
\* and leaves the team's active_environment in the file as it was.
C24_DisabledTeamRejected ==
    [][\A t \in Teams :
          (/\ result'.op = "update"
           /\ result'.team = t
           /\ PersistedField(config, t, "blue_green_enabled") = "false") =>
              /\ ~result'.ok
              /\ PersistedEnvironment(config', t)
                    = PersistedEnvironment(config, t)
      ]_vars

\* C25: an update for a team whose entry has no active_environment returns
\* False and leaves the file as it was, and show returns False while an
\* entry of the file has no active_environment: no default stands in for
\* the missing value.
C25_FailsClosed ==
    [][/\ \A t \in Teams :
            (/\ result'.op = "update"
             /\ result'.team = t
             /\ find_team_in_config(config, t) # 0
             /\ PersistedEnvironment(config, t) = ABSENT) =>
                /\ ~result'.ok
                /\ config' = config
       /\ (/\ result'.op = "show"
           /\ \E t \in Teams :
                 /\ find_team_in_config(config, t) # 0
                 /\ PersistedEnvironment(config, t) = ABSENT) =>
              ~result'.ok
      ]_vars

\* the entry the file holds for a team, ABSENT when it holds none
PersistedEntry(file, team_name) ==
    LET idx == find_team_in_config(file, team_name)
    IN  IF idx = 0 THEN ABSENT ELSE file.teams[idx]

\* C27: a switch, a rollback or an update for one team leaves the record of
\* every other team as it was, in the state file and in the configuration
\* file; and an update leaves every field of the team's own entry other
\* than active_environment as it was.
C27_TeamIsolation ==
    [][\A t \in Teams :
          /\ (/\ result'.op \in {"switch_team_environment",
                                 "execute_rollback"}
              /\ result'.team # t) => state'[t] = state[t]
          /\ (result'.op = "update" /\ result'.team # t) =>
                PersistedEntry(config', t) = PersistedEntry(config, t)
          /\ (result'.op = "update" /\ result'.team = t) =>
                \A f \in {"team_name", "blue_green_enabled", "ports"} :
                    PersistedField(config', t, f)
                        = PersistedField(config, t, f)
      ]_vars

\* the fields validate_team_configuration requires
RequiredFields ==
    {"team_name", "blue_green_enabled", "active_environment", "ports"}

\* the file holds an entry for the team with every required field
Complete(file, team_name) ==
    /\ find_team_in_config(file, team_name) # 0
    /\ \A f \in RequiredFields : PersistedField(file, team_name, f) # ABSENT

\* C28 as stated: validate_team_configuration on a file it can read returns
\* True exactly when the team exists and its entry has the four required
\* fields.
C28_FourFieldsSuffice ==
    (result.op = "validate" /\ result.arg = "readable")
        => (result.ok <=> Complete(config, result.team))

\* C28: validate_team_configuration returns True exactly when the file was
\* loaded, the team exists, its entry has the four required fields and its
\* blue_green_enabled is true; it leaves the configuration file as it was.
C28_CompleteAndEnabled ==
    [][result'.op = "validate" =>
          /\ config' = config
          /\ result'.ok <=>
                /\ result'.arg = "readable"
                /\ Complete(config, result'.team)
                /\ PersistedField(config, result'.team,
                                  "blue_green_enabled") = "true"
      ]_vars

\* a loaded entry with all four fields whose blue_green_enabled is false
\* was reported as not valid
C28_Witness ==
    /\ result.op = "validate"
    /\ result.arg = "readable"
    /\ ~result.ok
    /\ Complete(config, result.team)
    /\ PersistedField(config, result.team, "blue_green_enabled") = "false"

\* C29: an update leaves every active_environment that was blue or
\* green blue or green; with an environment other than blue and green or an
\* unknown team it returns False and leaves the file as it was; with the
\* team's current environment as target it returns True and leaves the file
\* as it was.
C29_IdempotentUpdate ==
    [][result'.op = "update" =>
          /\ \A t \in Teams :
                PersistedEnvironment(config, t) \in Envs =>
                    PersistedEnvironment(config', t) \in Envs
          /\ (\/ ~validate_environment(result'.arg)
              \/ find_team_in_config(config, result'.team) = 0) =>
                 (~result'.ok /\ config' = config)
          /\ (/\ validate_environment(result'.arg)
              /\ PersistedEnvironment(config, result'.team) = result'.arg) =>
                 (result'.ok /\ config' = config)
      ]_vars

\* C30: an update that wrote a change returns True only when the file was
\* read back and shows the new environment for the team.
C30_VerifiedBeforeTrue ==
    (/\ result.op = "update"
     /\ result.ok
     /\ result.msg # "already on environment") => result.msg = "verified"

(***************************************************************************)
(* Properties of certificate rotation, checked under SpecCert.             *)
(***************************************************************************)

\* C26: the old certificate file is gone only when the new certificate has
\* passed its health checks and is the one served; a rollback started by a
\* failed step whose backup file exists reports success and the backup is
\* the certificate served; a rollback whose backup file is missing reports
\* rollback_successful = false with the error "Backup certificate not
\* found", has completed no step, and the certificate served is the one
\* served before.
C26_RotationAndRollback ==
    /\ input.current_cert \notin haproxy.files =>
          /\ haproxy.verified
          /\ haproxy.active = "rotated-cert.crt"
    /\ result.op = "rollback" =>
          IF input.backup_cert \in history.files
          THEN /\ result.ok
               /\ result.active_certificate = input.backup_cert
               /\ haproxy.active = input.backup_cert
          ELSE /\ ~result.ok
               /\ result.error = "Backup certificate not found"
               /\ result.steps_completed = <<>>
               /\ haproxy = history

\* the new certificate failed its test after traffic was switched to it and
\* the backup was missing
C26_Witness ==
    /\ result.op = "rollback"
    /\ ~result.ok
    /\ result.failure_reason = "New certificate validation failed"
    /\ haproxy.active = "rotated-cert.crt"
    /\ input.backup_cert = "missing-backup.crt"

====
